---- MODULE Spec2Model ----
(***************************************************************************)
(* DNS tunneling detection: dns_pcap_parser.py (query-name extraction)     *)
(* and dns_tunnel_analyzer.py (span heuristic, character and bigram        *)
(* detectors, main pipeline).                                              *)
(*                                                                         *)
(* Strings are sequences of one-character strings, so that split, join,    *)
(* lower, rstrip and the bigram slicing are computed character by          *)
(* character as the Python code computes them.                             *)
(***************************************************************************)
EXTENDS Integers, Sequences, FiniteSets, TLC

VARIABLES
    labels,                  \* the label sequence a name was written from
    fqdn,                    \* the name passed to the function under call
    ret,                     \* what the call returned
    benign_bigram_counts,    \* the benign bigram profile (a Counter)
    total_benign_bigrams,    \* sum of the profile's counts, as main keeps it
    capture,                 \* the capture file extract_dns_queries_from_pcap reads
    xpc,                     \* where the extraction is: "idle", "open", "scan", "done"
    caught,                  \* the except clause that ended the extraction
    packet_count,
    dns_query_count,
    dns_queries,             \* the set of names, in insertion order
    result,                  \* the list the extraction returned
    pc,                      \* where main is
    benign_pcap,             \* the capture file at pcap_files['benign']
    all_files_found,
    pcap_idx,                \* position of the loop over pcap_files, from 1
    current_pcap_queries,
    qi,                      \* position of the loop over the queries, from 1
    flagged_by_char_freq,
    flagged_by_bigram,
    row,                     \* the row the last writer.writerow wrote
    builds,                  \* times the profile was set up (lines 269-282)
    scoring_called           \* analyze_domain_bigram was called by main

calls == <<labels, fqdn, ret>>
table == <<benign_bigram_counts, total_benign_bigrams>>
scan  == <<capture, xpc, caught, packet_count, dns_query_count, dns_queries,
           result>>

run   == <<pc, benign_pcap, all_files_found, pcap_idx, current_pcap_queries,
           qi, flagged_by_char_freq, flagged_by_bigram, row, builds,
           scoring_called>>

vars == <<calls, table, scan, run>>

(***************************************************************************)
(* Bounds                                                                  *)
(***************************************************************************)
MaxLabels == 5

(***************************************************************************)
(* String helpers (str.lower, str.split('.'), '.'.join)                    *)
(***************************************************************************)
Range(s) == {s[i] : i \in 1..Len(s)}

LowerChar(c) ==
    CASE c = "A" -> "a"
      [] c = "C" -> "c"
      [] c = "M" -> "m"
      [] c = "O" -> "o"
      [] OTHER -> c

Lower(s) == [i \in 1..Len(s) |-> LowerChar(s[i])]

RECURSIVE Split(_)
Split(s) ==
    IF "." \notin Range(s)
    THEN <<s>>
    ELSE LET i == CHOOSE k \in 1..Len(s) :
                      /\ s[k] = "."
                      /\ \A j \in 1..(k - 1) : s[j] # "."
         IN  <<SubSeq(s, 1, i - 1)>> \o Split(SubSeq(s, i + 1, Len(s)))

RECURSIVE Join(_)
Join(parts) ==
    IF Len(parts) = 0 THEN <<>>
    ELSE IF Len(parts) = 1 THEN parts[1]
    ELSE parts[1] \o <<".">> \o Join(Tail(parts))

\* parts[:-k] for a list of more than k parts
DropLast(parts, k) == SubSeq(parts, 1, Len(parts) - k)

Last(s) == s[Len(s)]

Front(s) == SubSeq(s, 1, Len(s) - 1)

(***************************************************************************)
(* get_relevant_hostname_part                                              *)
(***************************************************************************)
COM == <<"c", "o", "m">>

\* line 39 without the parts[-2] != "com" exclusion
CompoundTldGuard_NoComExclusion(parts) ==
    /\ Len(parts) > 3
    /\ Len(parts[Len(parts) - 1]) <= 3

CompoundTldGuard(parts) ==
    /\ Len(parts) > 3
    /\ Len(parts[Len(parts) - 1]) <= 3
    /\ parts[Len(parts) - 1] # COM

get_relevant_hostname_part(name) ==
    LET parts == Split(Lower(name))
    IN  IF Len(parts) > 2
        THEN IF CompoundTldGuard(parts)
             THEN Join(DropLast(parts, 3))
             ELSE IF Len(parts) > 2
                  THEN Join(DropLast(parts, 2))
                  ELSE parts[1]
        ELSE IF Len(parts) > 0
             THEN parts[1]
             ELSE <<>>

(***************************************************************************)
(* Inputs of the span heuristic: label sequences over a small label pool   *)
(* (empty label, short labels, "com", an upper-case spelling, a long one). *)
(***************************************************************************)
NoRet == [kind |-> "none"]

\* collections.Counter(): no keys
EmptyCounter == <<>>

NoProfile ==
    /\ benign_bigram_counts = EmptyCounter
    /\ total_benign_bigrams = 0

NoCapture == [exists |-> FALSE, records |-> <<>>]

NoScan ==
    /\ capture = NoCapture
    /\ xpc = "idle"
    /\ caught = "none"
    /\ packet_count = 0
    /\ dns_query_count = 0
    /\ dns_queries = <<>>
    /\ result = <<>>

NoRow == [pcap_source |-> "none"]

NoRun ==
    /\ pc = "idle"
    /\ benign_pcap = NoCapture
    /\ all_files_found = FALSE
    /\ pcap_idx = 0
    /\ current_pcap_queries = <<>>
    /\ qi = 0
    /\ flagged_by_char_freq = 0
    /\ flagged_by_bigram = 0
    /\ row = NoRow
    /\ builds = 0
    /\ scoring_called = FALSE

LabelPool ==
    { <<>>,
      <<"a">>,
      <<"c", "o">>,
      <<"c", "o", "m">>,
      <<"C", "O", "M">>,
      <<"m", "a", "i", "l">> }

LabelSeqs == UNION { [1..n -> LabelPool] : n \in 1..MaxLabels }

InitSpan ==
    /\ labels \in LabelSeqs
    /\ fqdn = Join(labels)
    /\ ret = NoRet
    /\ NoProfile
    /\ NoScan
    /\ NoRun

CallSpan ==
    /\ ret = NoRet
    /\ ret' = [kind |-> "span", span |-> get_relevant_hostname_part(fqdn)]
    /\ UNCHANGED <<labels, fqdn, table, scan, run>>

NextSpan == CallSpan

SpecSpan == InitSpan /\ [][NextSpan]_vars

(***************************************************************************)
(* Claims about get_relevant_hostname_part                                 *)
(***************************************************************************)
LoweredLabels == [i \in 1..Len(labels) |-> Lower(labels[i])]

\* C1: the returned span is the empty string if and only if the domain name
\* is the empty string (stated for every dot-separated name, empty labels
\* included).
C1_SpanEmptyIffNameEmpty ==
    ret.kind = "span" => ((ret.span = <<>>) <=> (fqdn = <<>>))

\* The span rules as the claim C10 states them, over the lowered labels.
SpanByRules(L) ==
    LET n == Len(L)
    IN  IF n > 3 /\ Len(L[n - 1]) <= 3 /\ L[n - 1] # <<"c", "o", "m">>
        THEN Join(SubSeq(L, 1, n - 3))
        ELSE IF n > 2
             THEN Join(SubSeq(L, 1, n - 2))
             ELSE L[1]

\* C10: for every non-empty label sequence the span is the one the ordered
\* rules give: labels before the last 3 (n > 3, short second-to-last label
\* other than "com"), else labels before the last 2 (n > 2), else the first
\* label.
C10_SpanFollowsOrderedRules ==
    ret.kind = "span" => ret.span = SpanByRules(LoweredLabels)

\* A four-label name ending in "com".<tld>: rule 1 is declined because of the
\* "com" exclusion and rule 2 returns the first two labels.
C10_Witness ==
    /\ ret.kind = "span"
    /\ Len(labels) = 4
    /\ LoweredLabels[3] = <<"c", "o", "m">>
    /\ labels[1] # <<>>
    /\ ret.span = LoweredLabels[1] \o <<".">> \o LoweredLabels[2]

(***************************************************************************)
(* Character frequency analysis                                            *)
(***************************************************************************)
Count(text, c) == Cardinality({i \in 1..Len(text) : text[i] = c})

\* math.log(k, 2.0) in millibits, k = 1..80
Log2Milli ==
    << 0, 1000, 1585, 2000, 2322, 2585, 2807, 3000, 3170, 3322,
       3459, 3585, 3700, 3807, 3907, 4000, 4087, 4170, 4248, 4322,
       4392, 4459, 4524, 4585, 4644, 4700, 4755, 4807, 4858, 4907,
       4954, 5000, 5044, 5087, 5129, 5170, 5209, 5248, 5285, 5322,
       5358, 5392, 5426, 5459, 5492, 5524, 5555, 5585, 5615, 5644,
       5672, 5700, 5728, 5755, 5781, 5807, 5833, 5858, 5883, 5907,
       5931, 5954, 5977, 6000, 6022, 6044, 6066, 6087, 6109, 6129,
       6150, 6170, 6190, 6209, 6229, 6248, 6267, 6285, 6304, 6322 >>

RECURSIVE SumCountLog(_, _)
SumCountLog(text, chars) ==
    IF chars = {} THEN 0
    ELSE LET c == CHOOSE x \in chars : TRUE
         IN  Count(text, c) * Log2Milli[Count(text, c)]
               + SumCountLog(text, chars \ {c})

\* -sum(p * log2(p)) with p = count(c)/len(text), in millibits:
\* (len*log2(len) - sum(count*log2(count))) / len
calculate_shannon_entropy(text) ==
    IF text = <<>> THEN 0
    ELSE (Len(text) * Log2Milli[Len(text)] - SumCountLog(text, Range(text)))
             \div Len(text)

entropy_threshold_suspicious == 3800

hex_chars == {"0", "1", "2", "3", "4", "5", "6", "7", "8", "9",
              "a", "b", "c", "d", "e", "f"}

\* str.isdigit: the ASCII digits and the other Unicode decimal digits, of
\* which the alphabet here holds ARABIC-INDIC DIGIT THREE.
IsDigit(c) ==
    c \in {"0", "1", "2", "3", "4", "5", "6", "7", "8", "9", "U+0663"}

hex_count(hostname) ==
    Cardinality({i \in 1..Len(hostname) : hostname[i] \in hex_chars})

numeric_count(hostname) ==
    Cardinality({i \in 1..Len(hostname) : IsDigit(hostname[i])})

unique_chars(hostname) == Cardinality(Range(hostname))

\* hex_ratio > 0.75 and len(hostname) > 10
HexDominant(hostname) ==
    /\ Len(hostname) > 0
    /\ 4 * hex_count(hostname) > 3 * Len(hostname)
    /\ Len(hostname) > 10

\* numeric_ratio > 0.8 and len(hostname) > 10
NumericDominant(hostname) ==
    /\ Len(hostname) > 0
    /\ 5 * numeric_count(hostname) > 4 * Len(hostname)
    /\ Len(hostname) > 10

\* line 126 with the variety comparison turned round
LowVariety_Flipped(hostname) ==
    Len(hostname) > 15 /\ unique_chars(hostname) > 5

LowVariety(hostname) ==
    Len(hostname) > 15 /\ unique_chars(hostname) < 5

VeryLong(hostname) == Len(hostname) > 60

analyze_domain_char_freq(name) ==
    LET hostname == get_relevant_hostname_part(name)
        entropy  == calculate_shannon_entropy(hostname)
        Verdict(s, r, e) ==
            [kind |-> "char", suspicious |-> s, reason |-> r, entropy |-> e]
    IN  IF hostname = <<>>
        THEN Verdict(FALSE, "No relevant hostname part to analyze", 0)
        ELSE IF entropy > entropy_threshold_suspicious
        THEN Verdict(TRUE, "High entropy", entropy)
        ELSE IF HexDominant(hostname)
        THEN Verdict(TRUE, "Hex dominant", entropy)
        ELSE IF NumericDominant(hostname)
        THEN Verdict(TRUE, "Numeric dominant", entropy)
        ELSE IF LowVariety(hostname)
        THEN Verdict(TRUE, "Low unique chars", entropy)
        ELSE IF VeryLong(hostname)
        THEN Verdict(TRUE, "Very long hostname part", entropy)
        ELSE Verdict(FALSE, "Passes character heuristics", entropy)

(***************************************************************************)
(* Inputs of the character detector: names whose first labels cycle        *)
(* through a window of the character pool, alone or in front of a          *)
(* registered domain.                                                      *)
(***************************************************************************)
MaxRun == 62

CharPool ==
    << "g", "h", "z", "-", "x", "q", "w", "k",
       "a", "f", "0", "9", "U+0663", "m", "n", "." >>

\* n characters cycling through the k pool characters that start at s
Cycle(s, k, n) ==
    [i \in 1..n |-> CharPool[((s - 1 + ((i - 1) % k)) % Len(CharPool)) + 1]]

SuffixPool == { <<>>, <<".", "m", "a", "i", "l", ".", "c", "o", "m">> }

InitChar ==
    /\ labels = <<>>
    /\ \E s \in 1..Len(CharPool), k \in 1..Len(CharPool), n \in 0..MaxRun,
          suffix \in SuffixPool :
            fqdn = Cycle(s, k, n) \o suffix
    /\ ret = NoRet
    /\ NoProfile
    /\ NoScan
    /\ NoRun

CallCharFreq ==
    /\ ret = NoRet
    /\ ret' = analyze_domain_char_freq(fqdn)
    /\ UNCHANGED <<labels, fqdn, table, scan, run>>

NextChar == CallCharFreq

SpecChar == InitChar /\ [][NextChar]_vars

(***************************************************************************)
(* Claims about analyze_domain_char_freq                                   *)
(***************************************************************************)
\* the span of the call is 61 copies of the character c
SpanIsRun61(c) ==
    LET hostname == get_relevant_hostname_part(fqdn)
    IN  Len(hostname) = 61 /\ \A i \in 1..61 : hostname[i] = c

\* C2 as stated: a span of 61 copies of one character is suspicious with the
\* excessive-length reason of rule 5, whichever character is repeated.
C2_Run61IsVeryLong ==
    (ret.kind = "char" /\ \E c \in Range(CharPool) : SpanIsRun61(c))
        => (ret.suspicious /\ ret.reason = "Very long hostname part")

\* C2 amended: a span of 61 copies of one character is suspicious with
\* entropy 0, and the reason is that of the first rule that matches it: hex
\* dominance (rule 2) when the character is one of 0-9a-f, numeric dominance
\* (rule 3) when it is a digit outside 0-9, low character variety (rule 4)
\* otherwise; the excessive-length rule 5 is never the one reported.
C2_Run61ReasonIsEarlierRule ==
    \A c \in Range(CharPool) :
        (ret.kind = "char" /\ SpanIsRun61(c))
            => /\ ret.suspicious
               /\ ret.entropy = 0
               /\ ret.reason =
                    IF c \in {"0", "1", "2", "3", "4", "5", "6", "7", "8",
                              "9", "a", "b", "c", "d", "e", "f"}
                    THEN "Hex dominant"
                    ELSE IF c = "U+0663"
                         THEN "Numeric dominant"
                         ELSE "Low unique chars"

\* 61 copies of "z" in front of mail.com were analysed.
C2_Witness ==
    /\ ret.kind = "char"
    /\ SpanIsRun61("z")
    /\ Len(fqdn) = 70
    /\ ret.suspicious
    /\ ret.reason = "Low unique chars"

(***************************************************************************)
(* Bigram analysis                                                         *)
(***************************************************************************)
\* [text[i:i+2] for i in range(len(text) - 1)]
get_bigrams(text) ==
    IF Len(text) < 2 THEN <<>>
    ELSE [i \in 1..(Len(text) - 1) |-> <<text[i], text[i + 1]>>]

\* Counter.update with one element
CounterInc(counter, key) ==
    IF key \in DOMAIN counter
    THEN [counter EXCEPT ![key] = @ + 1]
    ELSE [k \in DOMAIN counter \cup {key} |->
            IF k = key THEN 1 ELSE counter[k]]

RECURSIVE CounterUpdate(_, _)
CounterUpdate(counter, items) ==
    IF items = <<>> THEN counter
    ELSE CounterUpdate(CounterInc(counter, Head(items)), Tail(items))

RECURSIVE CounterSum(_)
CounterSum(counter) ==
    IF DOMAIN counter = {} THEN 0
    ELSE LET k == CHOOSE x \in DOMAIN counter : TRUE
         IN  counter[k] + CounterSum([j \in DOMAIN counter \ {k} |-> counter[j]])

\* the profile built from the first label of each name instead of its span
RECURSIVE build_FirstLabelOnly(_)
build_FirstLabelOnly(fqdn_list) ==
    IF fqdn_list = <<>> THEN EmptyCounter
    ELSE LET hostname == Split(Lower(Last(fqdn_list)))[1]
             before   == build_FirstLabelOnly(Front(fqdn_list))
         IN  IF hostname # <<>>
             THEN CounterUpdate(before, get_bigrams(hostname))
             ELSE before

RECURSIVE build_benign_bigram_profile(_)
build_benign_bigram_profile(fqdn_list) ==
    IF fqdn_list = <<>> THEN EmptyCounter
    ELSE LET hostname == get_relevant_hostname_part(Last(fqdn_list))
             before   == build_benign_bigram_profile(Front(fqdn_list))
         IN  IF hostname # <<>>
             THEN CounterUpdate(before, get_bigrams(hostname))
             ELSE before

illustrative_odd_bigrams ==
    { <<"x", "q">>, <<"z", "$">>, <<"q", "j">>, <<"z", "x">>, <<"j", "$">>,
      <<"$", "j">>, <<"k", "q">>, <<"v", "q">>, <<"v", "x">>, <<"$", "$">>,
      <<"q", "g">>, <<"q", "k">>, <<"q", "f">>, <<"j", "c">>, <<"q">> }

\* line 200: the rare test divides by the total only when it is positive
RareDivisionGuard(total) == total > 0

\* bg not in benign_bigram_profile
IsUnseen(bg, profile) == bg \notin DOMAIN profile

\* the rare test of lines 200-201 reaches its division
RareDivides(bg, profile, total) ==
    /\ ~IsUnseen(bg, profile)
    /\ RareDivisionGuard(total)

\* benign_bigram_profile[bg] / benign_total_bigrams < 0.00001, that is
\* count < total / 100000, that is count < ceil(total / 100000)
IsRare(bg, profile, total) ==
    /\ RareDivides(bg, profile, total)
    /\ total # 0
    /\ profile[bg] < (total + 99999) \div 100000

\* what one pass of the loop body (lines 192-216) leaves of the profile, with
\* the scored bigram counted into it
ProfileAfterVisit_Learns(profile, bg) == CounterInc(profile, bg)

\* what one pass of the loop body (lines 192-216) leaves of the profile: the
\* body tests membership and reads the count of a present key
ProfileAfterVisit(profile, bg) == profile

RECURSIVE ProfileAfterVisits(_, _)
ProfileAfterVisits(profile, bigrams) ==
    IF bigrams = <<>> THEN profile
    ELSE ProfileAfterVisits(ProfileAfterVisit(profile, Head(bigrams)),
                            Tail(bigrams))

\* line 221 without the len(current_bigrams) > 3 floor
UnseenRule_NoFloor(n, unseen) == 5 * unseen > 2 * n

\* len(current_bigrams) > 3 and unseen / len(current_bigrams) > 0.4
UnseenRule(n, unseen) == n > 3 /\ 5 * unseen > 2 * n

\* line 225 with the length floor of the other rules
OddRule_Floor3(n, odd) == n > 3 /\ 5 * odd > n

\* len(current_bigrams) > 2 and odd / len(current_bigrams) > 0.2
OddRule(n, odd) == n > 2 /\ 5 * odd > n

\* len(current_bigrams) > 3 and rare / len(current_bigrams) > 0.3
RareRule(n, rare) == n > 3 /\ 10 * rare > 3 * n

\* some bigram makes up more than 0.5 of a hostname of more than 3 bigrams
RepetitiveRule(current_bigrams) ==
    \E i \in 1..Len(current_bigrams) :
        /\ Len(current_bigrams) > 3
        /\ 2 * Cardinality({j \in 1..Len(current_bigrams) :
                               current_bigrams[j] = current_bigrams[i]})
               > Len(current_bigrams)

analyze_domain_bigram(name, benign_bigram_profile, benign_total_bigrams) ==
    LET hostname == get_relevant_hostname_part(name)
        current_bigrams == get_bigrams(hostname)
        n == Len(current_bigrams)
        unseen_in_benign_count ==
            Cardinality({i \in 1..n :
                IsUnseen(current_bigrams[i], benign_bigram_profile)})
        rare_in_benign_count ==
            Cardinality({i \in 1..n :
                IsRare(current_bigrams[i], benign_bigram_profile,
                       benign_total_bigrams)})
        odd_pattern_count ==
            Cardinality({i \in 1..n :
                current_bigrams[i] \in illustrative_odd_bigrams})
        zero_division ==
            \E i \in 1..n :
                /\ RareDivides(current_bigrams[i], benign_bigram_profile,
                               benign_total_bigrams)
                /\ benign_total_bigrams = 0
        Verdict(s, r) ==
            [kind |-> "bigram", raised |-> "none",
             suspicious |-> s, reason |-> r,
             unseen |-> unseen_in_benign_count,
             rare |-> rare_in_benign_count,
             odd |-> odd_pattern_count,
             profile |-> ProfileAfterVisits(benign_bigram_profile,
                                            current_bigrams)]
    IN  IF hostname = <<>> \/ Len(hostname) < 2
        THEN [kind |-> "bigram", raised |-> "none", suspicious |-> FALSE,
              reason |-> "Hostname too short for bigram analysis",
              unseen |-> 0, rare |-> 0, odd |-> 0,
              profile |-> benign_bigram_profile]
        ELSE IF current_bigrams = <<>>
        THEN [kind |-> "bigram", raised |-> "none", suspicious |-> FALSE,
              reason |-> "No bigrams found in hostname",
              unseen |-> 0, rare |-> 0, odd |-> 0,
              profile |-> benign_bigram_profile]
        ELSE IF zero_division
        THEN [kind |-> "bigram", raised |-> "ZeroDivisionError",
              suspicious |-> FALSE, reason |-> "",
              unseen |-> 0, rare |-> 0, odd |-> 0,
              profile |-> benign_bigram_profile]
        ELSE IF UnseenRule(n, unseen_in_benign_count)
        THEN Verdict(TRUE, "High proportion of bigrams unseen in benign")
        ELSE IF OddRule(n, odd_pattern_count)
        THEN Verdict(TRUE, "High proportion of 'illustrative odd' bigrams")
        ELSE IF RareRule(n, rare_in_benign_count)
        THEN Verdict(TRUE, "High proportion of bigrams rare in benign")
        ELSE IF RepetitiveRule(current_bigrams)
        THEN Verdict(TRUE, "Highly repetitive bigram")
        ELSE Verdict(FALSE, "Passes bigram heuristics")

(***************************************************************************)
(* Inputs of the bigram detector called on its own: every span over a      *)
(* three-letter alphabet up to MaxSpanLen, against an empty profile, a     *)
(* small one, one with a rare entry, and a profile passed with total 0.    *)
(***************************************************************************)
MaxSpanLen == 6

SpanAlphabet == {"a", "x", "q"}

SpanPool == UNION { [1..n -> SpanAlphabet] : n \in 0..MaxSpanLen }

ProfilePool ==
    { [profile |-> EmptyCounter, total |-> 0],
      [profile |-> CounterUpdate(EmptyCounter,
                      << <<"a", "a">>, <<"a", "a">>, <<"a", "x">> >>),
       total |-> 3],
      [profile |-> [b \in { <<"a", "a">>, <<"a", "x">> } |->
                      IF b = <<"a", "a">> THEN 1 ELSE 199999],
       total |-> 200000],
      [profile |-> CounterUpdate(EmptyCounter, << <<"a", "a">> >>),
       total |-> 0] }

InitDetector ==
    /\ labels = <<>>
    /\ \E span \in SpanPool, suffix \in SuffixPool : fqdn = span \o suffix
    /\ \E p \in ProfilePool :
          /\ benign_bigram_counts = p.profile
          /\ total_benign_bigrams = p.total
    /\ ret = NoRet
    /\ NoScan
    /\ NoRun

CallBigram ==
    /\ ret = NoRet
    /\ ret' = analyze_domain_bigram(fqdn, benign_bigram_counts,
                                    total_benign_bigrams)
    /\ UNCHANGED <<labels, fqdn, table, scan, run>>

NextDetector == CallBigram

SpecDetector == InitDetector /\ [][NextDetector]_vars

(***************************************************************************)
(* Claims about analyze_domain_bigram called on its own                    *)
(***************************************************************************)
CalledOnEmptyProfile ==
    /\ ret.kind = "bigram"
    /\ benign_bigram_counts = EmptyCounter
    /\ total_benign_bigrams = 0

\* C3 as stated: a call with an empty table and total 0 raises no division
\* fault and returns a not-suspicious "unavailable" outcome instead of a
\* verdict computed from the empty table.
C3_EmptyProfileIsUnavailable ==
    CalledOnEmptyProfile => (ret.raised = "none" /\ ~ret.suspicious)

\* C3 amended: a call with an empty table and total 0 raises no division
\* fault and returns the verdict the rules compute from the empty table,
\* where every bigram of the span is unseen: "too short" for a span under 2
\* characters, suspicious by the unseen rule for more than 3 bigrams,
\* suspicious by the odd rule for exactly 3 bigrams with an odd one among
\* them, and "passes" otherwise.
C3_EmptyProfileVerdictIsComputed ==
    CalledOnEmptyProfile =>
        LET hostname == get_relevant_hostname_part(fqdn)
            n == Len(hostname) - 1
            odd == \E i \in 1..n :
                      <<hostname[i], hostname[i + 1]>> \in
                          { <<"x", "q">>, <<"q", "j">>, <<"z", "x">> }
        IN  /\ ret.raised = "none"
            /\ ret.unseen = (IF n < 1 THEN 0 ELSE n)
            /\ ret.reason =
                 IF n < 1 THEN "Hostname too short for bigram analysis"
                 ELSE IF n > 3
                      THEN "High proportion of bigrams unseen in benign"
                 ELSE IF n = 3 /\ odd
                      THEN "High proportion of 'illustrative odd' bigrams"
                 ELSE "Passes bigram heuristics"
            /\ ret.suspicious = (n > 3 \/ (n = 3 /\ odd))

\* A five-letter span was scored against the empty profile and flagged.
C3_Witness ==
    /\ CalledOnEmptyProfile
    /\ Len(get_relevant_hostname_part(fqdn)) = 5
    /\ ret.raised = "none"
    /\ ret.suspicious
    /\ ret.unseen = 4

\* the bigrams of the span of the call, as pairs of neighbouring characters
SpanBigramAt(i) ==
    LET hostname == get_relevant_hostname_part(fqdn)
    IN  <<hostname[i], hostname[i + 1]>>

\* count / total < 0.00001 for a present bigram, stated on total / count
RareFraction(count, total) ==
    \/ count = 0
    \/ /\ count > 0
       /\ \/ total \div count > 100000
          \/ (total \div count = 100000 /\ total % count > 0)

\* C11: for a table with total > 0 the verdict is that of the first true
\* rule in the order unseen (more than 3 bigrams, over 0.4 unseen), odd
\* (more than 2 bigrams, over 0.2 odd), rare (more than 3 bigrams, over 0.3
\* present with count/total < 1e-5), repetitive (more than 3 bigrams, one
\* bigram value over 0.5 of them); not suspicious "passes" if none is true,
\* and not suspicious "too short" for a span under 2 characters.
C11_VerdictIsFirstTrueRule ==
    (ret.kind = "bigram" /\ total_benign_bigrams > 0) =>
        LET n == Len(get_relevant_hostname_part(fqdn)) - 1
            at == 1..n
            unseen == Cardinality({i \in at :
                          SpanBigramAt(i) \notin DOMAIN benign_bigram_counts})
            odd == Cardinality({i \in at :
                          SpanBigramAt(i) \in illustrative_odd_bigrams})
            rare == Cardinality({i \in at :
                          /\ SpanBigramAt(i) \in DOMAIN benign_bigram_counts
                          /\ RareFraction(
                                benign_bigram_counts[SpanBigramAt(i)],
                                total_benign_bigrams)})
            repeated == \E i \in at :
                          2 * Cardinality({j \in at :
                                  SpanBigramAt(j) = SpanBigramAt(i)}) > n
            expected ==
                IF n < 1
                THEN <<FALSE, "Hostname too short for bigram analysis">>
                ELSE IF n > 3 /\ 10 * unseen > 4 * n
                THEN <<TRUE, "High proportion of bigrams unseen in benign">>
                ELSE IF n > 2 /\ 10 * odd > 2 * n
                THEN <<TRUE, "High proportion of 'illustrative odd' bigrams">>
                ELSE IF n > 3 /\ 10 * rare > 3 * n
                THEN <<TRUE, "High proportion of bigrams rare in benign">>
                ELSE IF n > 3 /\ repeated
                THEN <<TRUE, "Highly repetitive bigram">>
                ELSE <<FALSE, "Passes bigram heuristics">>
        IN  /\ ret.raised = "none"
            /\ <<ret.suspicious, ret.reason>> = expected

\* A span with an unseen bigram, too few for rule 1, and no odd one was
\* flagged by the rare rule against the table of total 200000.
C11_Witness ==
    /\ ret.kind = "bigram"
    /\ total_benign_bigrams = 200000
    /\ ret.unseen = 1
    /\ ret.odd = 0
    /\ ret.rare >= 2
    /\ ret.suspicious
    /\ ret.reason = "High proportion of bigrams rare in benign"


(***************************************************************************)
(* extract_dns_queries_from_pcap                                           *)
(*                                                                         *)
(* A capture file is [exists, records]; a record is what PcapReader        *)
(* yields or does at that position:                                        *)
(*   [kind |-> "other"]                       a packet without a DNS layer *)
(*   [kind |-> "dns", qr, qdcount, qd]        a DNS message; qd lists the  *)
(*                                            questions that are present   *)
(*   [kind |-> "fault"]                       the reader raises here       *)
(* A question is the raw qname (bytes, with the trailing root dot), or     *)
(* BadQuestion, one whose qname cannot be read.                            *)
(***************************************************************************)
BadQuestion == <<"<bad>">>

\* bytes.decode('utf-8', errors='ignore'): undecodable bytes are dropped
RECURSIVE Decode(_)
Decode(raw) ==
    IF raw = <<>> THEN <<>>
    ELSE IF Head(raw) = "0xFF" THEN Decode(Tail(raw))
    ELSE <<Head(raw)>> \o Decode(Tail(raw))

\* str.rstrip('.')
RECURSIVE RStripDots(_)
RStripDots(text) ==
    IF text # <<>> /\ Last(text) = "."
    THEN RStripDots(Front(text))
    ELSE text

\* appending to a list where the code adds to a set
set_add_Append(s, x) == Append(s, x)

\* set.add
set_add(s, x) == IF x \in Range(s) THEN s ELSE Append(s, x)

\* lines 22-31 with the except clause leaving the loop over the questions
RECURSIVE ScanQuestions_BreakOnError(_, _, _)
ScanQuestions_BreakOnError(st, packet, i) ==
    IF i > packet.qdcount THEN st
    ELSE IF i > Len(packet.qd) \/ packet.qd[i] = BadQuestion
         THEN st
         ELSE LET qname == RStripDots(Decode(packet.qd[i]))
              IN  ScanQuestions_BreakOnError(
                      [st EXCEPT !.dns_queries = set_add(@, qname),
                                 !.dns_query_count = @ + 1],
                      packet, i + 1)

\* lines 22-31: for i in range(qdcount), with i counted from 1 to qdcount
RECURSIVE ScanQuestions(_, _, _)
ScanQuestions(st, packet, i) ==
    IF i > packet.qdcount THEN st
    ELSE IF i > Len(packet.qd) \/ packet.qd[i] = BadQuestion
         THEN ScanQuestions(st, packet, i + 1)
         ELSE LET qname == RStripDots(Decode(packet.qd[i]))
              IN  ScanQuestions(
                      [st EXCEPT !.dns_queries = set_add(@, qname),
                                 !.dns_query_count = @ + 1],
                      packet, i + 1)

\* packet.haslayer(DNS) and packet[DNS].qr == 0 and packet.haslayer(DNSQR)
IsQuery(packet) ==
    /\ packet.kind = "dns"
    /\ packet.qr = 0
    /\ Len(packet.qd) > 0

\* lines 18-35: the body of the scan loop for one packet
ScanPacket(st, packet) ==
    LET counted == [st EXCEPT !.packet_count = @ + 1]
    IN  IF IsQuery(packet)
        THEN ScanQuestions(counted, packet, 1)
        ELSE counted

\* the except clauses return the names gathered so far
ReturnOnError_Partial(queries) == queries

\* lines 37-42: both except clauses return []
ReturnOnError(queries) == <<>>

\* list(dns_queries): the names once each, in no defined order
ListOf(queries) ==
    { [i \in 1..Len(queries) |-> queries[order[i]]] :
        order \in { o \in [1..Len(queries) -> 1..Len(queries)] :
                      \A i, j \in 1..Len(queries) : i # j => o[i] # o[j] } }

ScanState ==
    [dns_queries |-> dns_queries, dns_query_count |-> dns_query_count,
     packet_count |-> packet_count]

\* line 16: PcapReader(pcap_file_path)
OpenPcap ==
    /\ xpc = "open"
    /\ IF capture.exists
       THEN /\ xpc' = "scan"
            /\ UNCHANGED <<caught, result>>
       ELSE /\ xpc' = "done"
            /\ caught' = "FileNotFoundError"
            /\ result' = ReturnOnError(dns_queries)
    /\ UNCHANGED <<capture, packet_count, dns_query_count, dns_queries>>
    /\ UNCHANGED <<calls, table, run>>

\* line 17: the reader yields the next packet, or raises
ReadPacket ==
    /\ xpc = "scan"
    /\ packet_count < Len(capture.records)
    /\ LET packet == capture.records[packet_count + 1]
       IN  IF packet.kind = "fault"
           THEN /\ xpc' = "done"
                /\ caught' = "Exception"
                /\ result' = ReturnOnError(dns_queries)
                /\ UNCHANGED <<packet_count, dns_query_count, dns_queries>>
           ELSE LET st == ScanPacket(ScanState, packet)
                IN  /\ packet_count' = st.packet_count
                    /\ dns_query_count' = st.dns_query_count
                    /\ dns_queries' = st.dns_queries
                    /\ UNCHANGED <<xpc, caught, result>>
    /\ UNCHANGED capture
    /\ UNCHANGED <<calls, table, run>>

\* lines 44-47: the reader is exhausted
ReturnQueries ==
    /\ xpc = "scan"
    /\ packet_count = Len(capture.records)
    /\ xpc' = "done"
    /\ result' \in ListOf(dns_queries)
    /\ UNCHANGED <<capture, caught, packet_count, dns_query_count,
                   dns_queries>>
    /\ UNCHANGED <<calls, table, run>>

(***************************************************************************)
(* Captures of the extraction runs: up to MaxRecords records of the pool.  *)
(***************************************************************************)
MaxRecords == 3

RawAB     == <<"a", ".", "b", ".">>
RawABByte == <<"a", ".", "0xFF", "b", ".">>
RawC      == <<"c", ".">>

Query(count, questions) ==
    [kind |-> "dns", qr |-> 0, qdcount |-> count, qd |-> questions]

RecordPool ==
    { [kind |-> "other"],
      [kind |-> "fault"],
      [kind |-> "dns", qr |-> 1, qdcount |-> 1, qd |-> <<RawAB>>],
      Query(1, <<RawAB>>),
      Query(1, <<RawABByte>>),
      Query(2, <<RawAB, RawC>>),
      Query(2, <<RawC>>),
      Query(2, <<BadQuestion, RawAB>>) }

InitExtract ==
    /\ labels = <<>>
    /\ fqdn = <<>>
    /\ ret = NoRet
    /\ NoProfile
    /\ \E n \in 0..MaxRecords, e \in BOOLEAN :
          \E records \in [1..n -> RecordPool] :
              capture = [exists |-> e, records |-> records]
    /\ xpc = "open"
    /\ caught = "none"
    /\ packet_count = 0
    /\ dns_query_count = 0
    /\ dns_queries = <<>>
    /\ result = <<>>
    /\ NoRun

NextExtract == OpenPcap \/ ReadPacket \/ ReturnQueries

SpecExtract == InitExtract /\ [][NextExtract]_vars

(***************************************************************************)
(* Claims about extract_dns_queries_from_pcap                              *)
(***************************************************************************)
\* C5: an extraction that ends on a missing file or on a fault of the reader
\* returns the empty list, whatever had been extracted before the fault.
C5_FaultReturnsEmpty ==
    (caught # "none") => (xpc = "done" /\ result = <<>>)

\* The reader raised after a name had been extracted, and nothing of it was
\* returned.
C5_Witness ==
    /\ xpc = "done"
    /\ caught = "Exception"
    /\ dns_queries # <<>>
    /\ packet_count > 0
    /\ result = <<>>

\* the names of the readable questions of one record, if it is a query
NamesOfRecord(packet) ==
    IF packet.kind = "dns" /\ packet.qr = 0
    THEN { RStripDots(Decode(packet.qd[i])) :
             i \in { j \in 1..Len(packet.qd) :
                       j <= packet.qdcount /\ packet.qd[j] # BadQuestion } }
    ELSE {}

NamesOfCapture ==
    UNION { NamesOfRecord(capture.records[k]) : k \in 1..Len(capture.records) }

\* C6: the returned list holds each extracted name once: its length is the
\* number of distinct names of the capture's query records and is at most
\* the number of query records counted.
C6_ResultHasNoDuplicates ==
    (xpc = "done" /\ caught = "none") =>
        /\ \A i, j \in 1..Len(result) : i # j => result[i] # result[j]
        /\ Range(result) = NamesOfCapture
        /\ Len(result) = Cardinality(NamesOfCapture)
        /\ Len(result) <= dns_query_count

\* Two query records carried the same name (one of them with an undecodable
\* byte in it) and the result holds it once.
C6_Witness ==
    /\ xpc = "done"
    /\ caught = "none"
    /\ Len(capture.records) = 2
    /\ capture.records[1] = Query(1, <<RawAB>>)
    /\ capture.records[2] = Query(1, <<RawABByte>>)
    /\ dns_query_count = 2
    /\ result = << <<"a", ".", "b">> >>

\* a record with a decode failure: a question that cannot be read, or a
\* question count larger than the questions present
HasDecodeFailure(packet) ==
    /\ packet.kind = "dns"
    /\ packet.qr = 0
    /\ \/ packet.qdcount > Len(packet.qd)
       \/ \E i \in 1..Len(packet.qd) :
             i <= packet.qdcount /\ packet.qd[i] = BadQuestion

\* C12: a decode failure on an individual record does not end the scan: the
\* only fault that does is one of the reader itself, and while none has
\* occurred the names gathered are those of every readable question of the
\* records scanned so far, before and after the failing ones; the list
\* returned after the last record holds them all.
C12_DecodeFailureIsSkipped ==
    /\ caught = "Exception" =>
          capture.records[packet_count + 1].kind = "fault"
    /\ (caught = "none" /\ xpc \in {"scan", "done"}) =>
          Range(dns_queries) =
              UNION { NamesOfRecord(capture.records[k]) : k \in 1..packet_count }
    /\ (caught = "none" /\ xpc = "done") =>
          /\ packet_count = Len(capture.records)
          /\ \A k \in 1..Len(capture.records) :
                NamesOfRecord(capture.records[k]) \subseteq Range(result)

\* The second of three records had an unreadable question; the name after
\* it in that record and the names of the records around it were returned.
C12_Witness ==
    /\ xpc = "done"
    /\ caught = "none"
    /\ Len(capture.records) = 3
    /\ capture.records[1] = Query(2, <<RawC>>)
    /\ capture.records[2] = Query(2, <<BadQuestion, RawAB>>)
    /\ capture.records[3] = Query(1, <<RawABByte>>)
    /\ HasDecodeFailure(capture.records[1])
    /\ HasDecodeFailure(capture.records[2])
    /\ packet_count = 3
    /\ dns_query_count = 3
    /\ Range(result) = { <<"c">>, <<"a", ".", "b">> }


(***************************************************************************)
(* main                                                                    *)
(***************************************************************************)
\* extract_dns_queries_from_pcap run to its return: the lists it can return
RECURSIVE ScanFrom(_, _)
ScanFrom(st, records) ==
    IF records = <<>> THEN ListOf(st.dns_queries)
    ELSE IF Head(records).kind = "fault"
         THEN {ReturnOnError(st.dns_queries)}
         ELSE ScanFrom(ScanPacket(st, Head(records)), Tail(records))

extract_dns_queries_from_pcap(file) ==
    IF file.exists
    THEN ScanFrom([dns_queries |-> <<>>, dns_query_count |-> 0,
                   packet_count |-> 0], file.records)
    ELSE {ReturnOnError(<<>>)}

pcap_files == <<"benign", "dns2tcp", "dnscat2", "iodine">>

\* line 330 with the bigram detector called whatever the total is
HasProfile_Always(total) == TRUE

\* line 330: total_benign_bigrams > 0
HasProfile(total) == total > 0

\* the loop over pcap_files going back to the profile stage for each file
AfterSource_Rebuild(idx) == "benign"

\* lines 298, 309: the loop over pcap_files goes on with the next file
AfterSource(idx) == "next_pcap"

\* lines 254-261
CheckFiles ==
    /\ pc = "check"
    /\ \E others_found \in BOOLEAN :
          all_files_found' = (benign_pcap.exists /\ others_found)
    /\ pc' = IF all_files_found' THEN "benign" ELSE "done"
    /\ UNCHANGED <<benign_pcap, pcap_idx, current_pcap_queries, qi,
                   flagged_by_char_freq, flagged_by_bigram, row, builds,
                   scoring_called>>
    /\ UNCHANGED <<calls, table, scan>>

\* lines 267-283
BuildProfile ==
    /\ pc = "benign"
    /\ \E benign_queries \in extract_dns_queries_from_pcap(benign_pcap) :
          IF benign_queries = <<>>
          THEN /\ benign_bigram_counts' = EmptyCounter
               /\ total_benign_bigrams' = 0
          ELSE /\ benign_bigram_counts' =
                      build_benign_bigram_profile(benign_queries)
               /\ total_benign_bigrams' = CounterSum(benign_bigram_counts')
    /\ builds' = builds + 1
    /\ pcap_idx' = 1
    /\ pc' = "next_pcap"
    /\ UNCHANGED <<benign_pcap, all_files_found, current_pcap_queries, qi,
                   flagged_by_char_freq, flagged_by_bigram, row,
                   scoring_called>>
    /\ UNCHANGED <<calls, scan>>

(***************************************************************************)
(* Captures of a run of main: up to MaxMainRecords records of the pool.    *)
(***************************************************************************)
MaxMainRecords == 2

RawWww  == <<"w", "w", "w", ".", "e", "x", "a", "m", "p", "l", "e", ".",
             "c", "o", "m", ".">>
RawMail == <<"m", "a", "i", "l", ".", "e", "x", "a", "m", "p", "l", "e", ".",
             "c", "o", "m", ".">>
RawShort == <<"a", ".", "b", ".">>
RawTunnel == <<"x", "q", "z", "x", ".", "q", "j", ".", "e", "v", "i", "l",
               ".", "c", "o", "m", ".">>

MainRecordPool ==
    { Query(2, <<RawWww, RawMail>>),
      Query(1, <<RawShort>>),
      Query(1, <<RawTunnel>>),
      [kind |-> "fault"] }

MainCaptures ==
    { [exists |-> TRUE, records |-> records] :
        records \in UNION { [1..n -> MainRecordPool] : n \in 0..MaxMainRecords } }

\* what extract_dns_queries_from_pcap can return for a tunnel capture
TunnelQueryLists ==
    UNION { extract_dns_queries_from_pcap(file) : file \in MainCaptures }

\* lines 298-318: the next capture of pcap_files is extracted
OpenNextPcap ==
    /\ pc = "next_pcap"
    /\ pcap_idx <= Len(pcap_files)
    /\ \E queries \in (IF pcap_files[pcap_idx] = "benign"
                        THEN extract_dns_queries_from_pcap(benign_pcap)
                        ELSE TunnelQueryLists) :
        IF queries = <<>>
        THEN /\ pcap_idx' = pcap_idx + 1
             /\ pc' = AfterSource(pcap_idx)
             /\ UNCHANGED <<current_pcap_queries, qi,
                            flagged_by_char_freq, flagged_by_bigram>>
        ELSE /\ current_pcap_queries' = queries
             /\ qi' = 1
             /\ flagged_by_char_freq' = 0
             /\ flagged_by_bigram' = 0
             /\ pc' = "analyze"
             /\ UNCHANGED pcap_idx
    /\ UNCHANGED <<benign_pcap, all_files_found, row, builds, scoring_called>>
    /\ UNCHANGED <<calls, table, scan>>

Skipped ==
    [kind |-> "skipped", suspicious |-> FALSE,
     reason |-> "Skipped (no benign bigram profile)"]

\* lines 320-344: one query of the current capture is analysed and written
AnalyzeQuery ==
    /\ pc = "analyze"
    /\ qi <= Len(current_pcap_queries)
    /\ LET name == current_pcap_queries[qi]
           hostname_part == get_relevant_hostname_part(name)
           char == analyze_domain_char_freq(name)
           called == HasProfile(total_benign_bigrams)
           bigram == IF called
                     THEN analyze_domain_bigram(name, benign_bigram_counts,
                                                total_benign_bigrams)
                     ELSE Skipped
       IN  /\ fqdn' = name
           /\ ret' = bigram
           /\ scoring_called' = (scoring_called \/ called)
           /\ benign_bigram_counts' =
                 IF called THEN bigram.profile ELSE benign_bigram_counts
           /\ flagged_by_char_freq' =
                 IF char.suspicious
                 THEN flagged_by_char_freq + 1 ELSE flagged_by_char_freq
           /\ flagged_by_bigram' =
                 IF /\ bigram.suspicious
                    /\ bigram.reason # "Skipped (no benign bigram profile)"
                 THEN flagged_by_bigram + 1 ELSE flagged_by_bigram
           /\ row' = [pcap_source |-> pcap_files[pcap_idx],
                      fqdn |-> name,
                      char_freq_suspicious |-> char.suspicious,
                      char_freq_reason |-> char.reason,
                      hostname_entropy |-> char.entropy,
                      bigram_suspicious |-> bigram.suspicious,
                      bigram_reason |-> bigram.reason,
                      relevant_hostname_part |-> hostname_part]
    /\ qi' = qi + 1
    /\ UNCHANGED <<pc, benign_pcap, all_files_found, pcap_idx,
                   current_pcap_queries, builds>>
    /\ UNCHANGED <<labels, total_benign_bigrams, scan>>

\* lines 353-358: the queries of the current capture are done
Summary ==
    /\ pc = "analyze"
    /\ qi > Len(current_pcap_queries)
    /\ pcap_idx' = pcap_idx + 1
    /\ pc' = AfterSource(pcap_idx)
    /\ UNCHANGED <<benign_pcap, all_files_found, current_pcap_queries, qi,
                   flagged_by_char_freq, flagged_by_bigram, row, builds,
                   scoring_called>>
    /\ UNCHANGED <<calls, table, scan>>

\* line 360: the loop over pcap_files is done
Finish ==
    /\ pc = "next_pcap"
    /\ pcap_idx > Len(pcap_files)
    /\ pc' = "done"
    /\ UNCHANGED <<benign_pcap, all_files_found, pcap_idx,
                   current_pcap_queries, qi, flagged_by_char_freq,
                   flagged_by_bigram, row, builds, scoring_called>>
    /\ UNCHANGED <<calls, table, scan>>

Init ==
    /\ labels = <<>>
    /\ fqdn = <<>>
    /\ ret = NoRet
    /\ NoProfile
    /\ NoScan
    /\ pc = "check"
    /\ \E file \in MainCaptures, e \in BOOLEAN :
          benign_pcap = [file EXCEPT !.exists = e]
    /\ all_files_found = FALSE
    /\ pcap_idx = 0
    /\ current_pcap_queries = <<>>
    /\ qi = 0
    /\ flagged_by_char_freq = 0
    /\ flagged_by_bigram = 0
    /\ row = NoRow
    /\ builds = 0
    /\ scoring_called = FALSE

Next ==
    \/ CheckFiles
    \/ BuildProfile
    \/ OpenNextPcap
    \/ AnalyzeQuery
    \/ Summary
    \/ Finish

Spec == Init /\ [][Next]_vars

(***************************************************************************)
(* Claims about main                                                       *)
(***************************************************************************)
Www == <<"w", "w", "w", ".", "e", "x", "a", "m", "p", "l", "e", ".",
         "c", "o", "m">>

Tunnel == <<"x", "q", "z", "x", ".", "q", "j", ".", "e", "v", "i", "l",
            ".", "c", "o", "m">>

\* C4: in a run whose benign corpus yields no bigrams (total = 0 after the
\* profile stage) analyze_domain_bigram is never called, every row written
\* has the not-suspicious "Skipped" bigram verdict, and the bigram flag
\* counter stays 0.
C4_EmptyProfileSkipsBigram ==
    (builds > 0 /\ total_benign_bigrams = 0) =>
        /\ ~scoring_called
        /\ flagged_by_bigram = 0
        /\ row # NoRow =>
              /\ ~row.bigram_suspicious
              /\ row.bigram_reason = "Skipped (no benign bigram profile)"

\* The benign capture held only a.b (span "a", no bigram), and the row of
\* the tunnel name of a later capture was written as skipped.
C4_Witness ==
    /\ builds > 0
    /\ total_benign_bigrams = 0
    /\ benign_pcap.records = <<Query(1, <<RawShort>>)>>
    /\ row # NoRow
    /\ row.pcap_source = "dnscat2"
    /\ row.fqdn = Tunnel
    /\ row.bigram_reason = "Skipped (no benign bigram profile)"
    /\ flagged_by_bigram = 0

\* C7: a name of the benign corpus scored against the profile built from
\* that corpus has no unseen bigram; the profile holds "ww" when the corpus
\* holds www.example.com.
C7_BenignNameHasNoUnseenBigram ==
    (row # NoRow /\ row.pcap_source = "benign" /\ ret.kind = "bigram") =>
        /\ ret.unseen = 0
        /\ row.fqdn = Www => <<"w", "w">> \in DOMAIN benign_bigram_counts

\* www.example.com of the corpus {www.example.com, mail.example.com} was
\* scored: "ww" is in the profile, twice, and nothing was unseen.
C7_Witness ==
    /\ row # NoRow
    /\ row.pcap_source = "benign"
    /\ row.fqdn = Www
    /\ benign_pcap.records = <<Query(2, <<RawWww, RawMail>>)>>
    /\ ret.kind = "bigram"
    /\ ret.unseen = 0
    /\ benign_bigram_counts[<<"w", "w">>] = 2
    /\ total_benign_bigrams = 5

\* C8: once the profile stage has run, no step changes the bigram table or
\* its total, and the total is the sum of the table's counts.
C8_ProfileFrozenAfterBuild ==
    [][builds > 0 =>
          /\ benign_bigram_counts' = benign_bigram_counts
          /\ total_benign_bigrams' = total_benign_bigrams
          /\ total_benign_bigrams' = CounterSum(benign_bigram_counts')]_vars

\* The tunnel name was scored against the profile of www and mail, all six
\* of its bigrams unseen, and the profile is as built.
C8_Witness ==
    /\ builds > 0
    /\ scoring_called
    /\ ret.kind = "bigram"
    /\ row.fqdn = Tunnel
    /\ ret.unseen = 6
    /\ benign_pcap.records = <<Query(2, <<RawWww, RawMail>>)>>
    /\ DOMAIN benign_bigram_counts =
          { <<"w", "w">>, <<"m", "a">>, <<"a", "i">>, <<"i", "l">> }
    /\ total_benign_bigrams = 5

\* C9 as stated: in every run of main the profile build runs exactly once,
\* and before any scoring call.
C9_BuildExactlyOnceInEveryRun ==
    /\ builds <= 1
    /\ scoring_called => builds = 1
    /\ pc = "done" => builds = 1

\* C9 amended: in every run of main that finds all capture files, the
\* profile build runs exactly once and is complete before the first scoring
\* call; it never runs a second time, so none follows a scoring call; a run
\* that finds a file missing ends without build and without scoring.
C9_BuildOnceBeforeScoring ==
    /\ builds <= 1
    /\ scoring_called => builds = 1
    /\ (pc = "done" /\ all_files_found) => builds = 1
    /\ (pc = "done" /\ ~all_files_found) => (builds = 0 /\ ~scoring_called)
    /\ pc \in {"next_pcap", "analyze"} => builds = 1
    /\ pc \in {"check", "benign"} => (builds = 0 /\ ~scoring_called)

\* A run ended after scoring names of the last capture, with one build.
C9_Witness ==
    /\ pc = "done"
    /\ all_files_found
    /\ builds = 1
    /\ scoring_called
    /\ row # NoRow
    /\ row.pcap_source = "iodine"

====
